---- MODULE Spec2Model ----
(***************************************************************************)
(* The periodic computation-and-broadcast pipeline of the cement plant     *)
(* system: the four scheduled jobs of CementPlantScheduler, the store      *)
(* wrapper SupabaseManager, the calculators they call and the websocket    *)
(* ConnectionManager that fans their messages out.                         *)
(*                                                                         *)
(* Every await of the code is one step of the model: a coroutine is        *)
(* suspended at the await and the step is its resumption, together with    *)
(* all the synchronous code up to the next await.                          *)
(***************************************************************************)
EXTENDS Integers, Sequences, FiniteSets, TLC

\* ------------------------------------------------------------------ bounds
\* Websocket handles that may ever connect.
NConn == 2
\* Execution slots of the executor per job (more than max_instances, so that
\* a second concurrent run would be representable).
MaxSlots == 2
\* Rows the ai_recommendations / optimization_results tables can take before
\* the store rejects further inserts.
MaxRows == 2
MaxUtilities == 21

Conns == 1..NConn
Slots == 1..MaxSlots

\* ------------------------------------------------------- values of a field
\* dict.get(key, default) yields the default only for a missing key; a key
\* that is present with JSON null yields None.
Absent == -1
Null == -2

Get(v, default) == IF v = Absent THEN default ELSE v

\* Optional[Dict]: None is the empty sequence, a row r is <<r>>.
None == << >>
Some(r) == <<r>>
IsNone(o) == o = << >>
Val(o) == o[1]

Max(a, b) == IF a >= b THEN a ELSE b
Min(a, b) == IF a <= b THEN a ELSE b

\* round(n/d, 0) for n >= 0, d > 0 (half up; the inputs below never sit on a
\* half).
RoundDiv(n, d) == (2 * n + d) \div (2 * d)


\* ------------------------------------------------------------- the readings
\* Rows of the store's streams.  Oxides are in tenths of a percent, fuel
\* rates in tenths of a tonne per hour, power in kW, feed in tph.
EmptyGrinding == [power |-> Absent, feed |-> Absent]
EmptyRaw == [cao |-> Absent, sio2 |-> Absent, al2o3 |-> Absent, fe2o3 |-> Absent]
EmptyKiln == [coal |-> Absent, alt |-> Absent, alt_type |-> "absent"]
EmptyQuality == [score |-> Absent]

GrindingRows ==
    { [power |-> 2600, feed |-> 80],     \* SEC 32.5
      [power |-> 2200, feed |-> 80],     \* SEC 27.5
      [power |-> 1700, feed |-> 80],     \* SEC 21.25
      [power |-> Null, feed |-> 80] }    \* power_consumption_kw is null
RawRows ==
    { [cao |-> 608, sio2 |-> 200, al2o3 |-> 50, fe2o3 |-> 30] }   \* LSF 95 %
KilnRows ==
    { [coal |-> 70, alt |-> 30, alt_type |-> "waste_tire"] }      \* TSR 35.8 %
QualityRows ==
    { [score |-> 96] }

\* ---------------------------------------------------------- the calculators
DefaultPower == 2000
DefaultFeed == 80
TargetSec == 25
AcceptableSec == 30

\* A grinding calculator that takes a null power for a number.
GrindingRaisesOnFeedOnly(g) == Get(g.feed, DefaultFeed) = Null

\* EnergyEfficiencyCalculator.analyze_grinding_efficiency raises inside its
\* try (None > 0, None / feed) exactly on these inputs.
GrindingRaises(g) ==
    LET power == Get(g.power, DefaultPower)
        feed == Get(g.feed, DefaultFeed)
    IN  feed = Null \/ (feed > 0 /\ power = Null)

\* sec = power / feed_rate if feed_rate > 0 else 30, as a fraction <<n, d>>.
GrindingSec(g) ==
    LET power == Get(g.power, DefaultPower)
        feed == Get(g.feed, DefaultFeed)
    IN  IF feed > 0 THEN <<power, feed>> ELSE <<AcceptableSec, 1>>

SecStatus(sec) ==
    IF sec[1] <= TargetSec * sec[2] THEN "optimal"
    ELSE IF sec[1] <= AcceptableSec * sec[2] THEN "acceptable"
    ELSE "critical"

\* potential_savings = (sec - 25) * feed_rate, 0 when optimal.
PotentialSavings(g) ==
    LET feed == Get(g.feed, DefaultFeed)
        sec == GrindingSec(g)
    IN  IF SecStatus(sec) = "optimal" THEN 0
        ELSE ((sec[1] - TargetSec * sec[2]) * feed) \div sec[2]

\* The result of analyze_grinding_efficiency: value is round(sec, 2) in
\* hundredths; the except branch returns status "error" and null numbers.
analyze_grinding_efficiency(g) ==
    IF GrindingRaises(g)
    THEN [error |-> TRUE, value |-> Null, status |-> "error",
          potential_savings_kwh |-> Null, target |-> TargetSec]
    ELSE [error |-> FALSE,
          value |-> RoundDiv(100 * GrindingSec(g)[1], GrindingSec(g)[2]),
          status |-> SecStatus(GrindingSec(g)),
          potential_savings_kwh |-> PotentialSavings(g), target |-> TargetSec]

DefaultCao == 540
DefaultSio2 == 200
DefaultAl2o3 == 50
DefaultFe2o3 == 30

ChemistryRaises(m) ==
    Null \in {m.cao, m.sio2, m.al2o3, m.fe2o3}

\* 100 * (2.8 sio2 + 1.2 al2o3 + 0.65 fe2o3)
LsfDenom100(m) ==
    280 * Get(m.sio2, DefaultSio2) + 120 * Get(m.al2o3, DefaultAl2o3)
        + 65 * Get(m.fe2o3, DefaultFe2o3)

\* lo <= 100 * cao / denom <= hi, with lsf = 0 when denom is 0.
LsfWithin(m, lo, hi) ==
    LET d == LsfDenom100(m)
        c == 10000 * Get(m.cao, DefaultCao)
    IN  IF d = 0 THEN lo <= 0 /\ 0 <= hi
        ELSE lo * d <= c /\ c <= hi * d

\* A percent form that is not multiplied by 100.
LsfPctValueAsRatio(m) ==
    IF LsfDenom100(m) = 0 THEN 0
    ELSE RoundDiv(10000 * Get(m.cao, DefaultCao), LsfDenom100(m))

\* round(lsf_pct, 2) in hundredths of a percent.
LsfPctValue(m) ==
    IF LsfDenom100(m) = 0 THEN 0
    ELSE RoundDiv(1000000 * Get(m.cao, DefaultCao), LsfDenom100(m))

\* The result of CementChemistryCalculator.analyze_chemistry: the status of
\* the ratio form (key lsf) and of the percent form (key lsf_pct), the
\* value of the percent form and the target range of the ratio form
\* ([0.92, 0.98], in hundredths).
analyze_chemistry(m) ==
    IF ChemistryRaises(m)
    THEN [error |-> TRUE, lsf |-> "error", lsf_pct |-> "error",
          lsf_pct_value |-> Null, target_range |-> <<92, 98>>]
    ELSE [error |-> FALSE, lsf_pct_value |-> LsfPctValue(m),
          target_range |-> <<92, 98>>,
          lsf |-> IF LsfWithin(m, 92, 98) THEN "optimal"
                  ELSE IF LsfWithin(m, 88, 102) THEN "acceptable"
                  ELSE "critical",
          lsf_pct |-> IF LsfWithin(m, 92, 98) THEN "optimal"
                      ELSE IF LsfWithin(m, 90, 100) THEN "warning"
                      ELSE "critical"]

\* FUEL_PROPERTIES[fuel]["cv"] in tenths of MJ/kg; 25.0 for an unknown fuel.
FuelCv(fuel) ==
    CASE fuel = "coal" -> 250
      [] fuel = "waste_tire" -> 325
      [] fuel = "biomass" -> 187
      [] fuel = "RDF" -> 155
      [] fuel = "petcoke" -> 350
      [] OTHER -> 250

DefaultTargetTsr == 30
FeasibleTsr == 40

\* A fuel optimizer that takes a null alternative-fuel rate for a number.
FuelRaisesOnCoalOnly(k) == Get(k.coal, 0) = Null

FuelRaises(k) ==
    Get(k.coal, 0) = Null \/ Get(k.alt, 0) = Null

AltFuelType(k) == IF k.alt_type = "absent" THEN "waste_tire" ELSE k.alt_type

\* round(tsr, 2) in hundredths of a percent.
CurrentTsr(k) ==
    LET coal_energy == Get(k.coal, 0) * FuelCv("coal")
        alt_energy == Get(k.alt, 0) * FuelCv(AltFuelType(k))
        total == coal_energy + alt_energy
    IN  IF total # 0 THEN RoundDiv(10000 * alt_energy, total) ELSE 0

\* The result of AlternativeFuelOptimizer.optimize_fuel_mix.
optimize_fuel_mix(k, target_tsr) ==
    IF FuelRaises(k)
    THEN [error |-> TRUE, current_tsr |-> Null, target_tsr |-> target_tsr,
          feasibility |-> "error"]
    ELSE [error |-> FALSE, current_tsr |-> CurrentTsr(k),
          target_tsr |-> target_tsr,
          feasibility |-> IF target_tsr <= FeasibleTsr THEN "feasible"
                          ELSE "review_required"]

\* ------------------------------------------------- MaintenanceCalculator
\* calculate_equipment_health_score raises inside its try on these
\* arguments: None > 0, None / baseline, None > 7, 100 - None.
HealthRaises(a) ==
    \/ a.baseline_power = Null
    \/ a.baseline_power > 0 /\ a.current_power = Null
    \/ a.maintenance_days = Null
    \/ a.efficiency = Null

\* health_score as a fraction <<n, d>>: the efficiency, less 20 per unit of
\* power ratio over 1 when the ratio is over 1.1, less 3 per day over 7.
HealthScore(a) ==
    LET d == IF a.baseline_power > 0 THEN a.baseline_power ELSE 1
        over == a.baseline_power > 0 /\ 10 * a.current_power > 11 * a.baseline_power
    IN  << a.efficiency * d
             - (IF over THEN 20 * (a.current_power - a.baseline_power) ELSE 0)
             - (IF a.maintenance_days > 7 THEN 3 * (a.maintenance_days - 7) * d ELSE 0),
           d >>

\* The result of calculate_equipment_health_score; the scores are rounded to
\* two decimals and held in hundredths.
calculate_equipment_health_score(a) ==
    IF HealthRaises(a)
    THEN [error |-> TRUE, health_score |-> Null, failure_risk |-> Null,
          status |-> "error", maintenance_required |-> "null"]
    ELSE LET h == HealthScore(a)
             risk == Max(0, 100 * h[2] - h[1])
         IN  [error |-> FALSE,
              health_score |-> RoundDiv(100 * h[1], h[2]),
              failure_risk |-> RoundDiv(100 * risk, h[2]),
              status |-> IF risk < 20 * h[2] THEN "good"
                         ELSE IF risk < 40 * h[2] THEN "warning"
                         ELSE "critical",
              maintenance_required |->
                  IF a.maintenance_days > 14 THEN "true" ELSE "false"]

\* ------------------------------------------------------- the KPI aggregator
DefaultQuality == 90
BaseScore == 70
MinScore == 55
MaxScore == 100

\* The sec both _calculate_plant_efficiency and _calculate_energy_savings
\* use: overview's, else the energy result's value (hundredths).
ReportSec(pd, energy) ==
    IF ~IsNone(pd.overview.sec) THEN Val(pd.overview.sec)
    ELSE <<energy.value, 100>>

\* generate_comprehensive_report leaves its try by an exception: None <= 25
\* or None >= 30 in _calculate_plant_efficiency (no sec, a null quality
\* score, a failed fuel result), None > 0 in _generate_recommendations (a
\* failed energy result).
ReportRaises(pd) ==
    \/ analyze_grinding_efficiency(pd.grinding).error
    \/ optimize_fuel_mix(pd.kiln, DefaultTargetTsr).error
    \/ Get(pd.overview.quality, DefaultQuality) = Null

_calculate_plant_efficiency(pd, energy, fuel, chemistry) ==
    LET sec == ReportSec(pd, energy)
        quality_score == Get(pd.overview.quality, DefaultQuality)
        tsr == fuel.current_tsr
        base == BaseScore
            + (IF sec[1] <= TargetSec * sec[2] THEN 10
               ELSE IF sec[1] <= AcceptableSec * sec[2] THEN 5 ELSE 0)
            + (IF quality_score >= 95 THEN 8
               ELSE IF quality_score >= 90 THEN 5 ELSE 0)
            + (IF tsr >= 3000 THEN 5 ELSE IF tsr >= 2000 THEN 2 ELSE 0)
            + (IF chemistry.lsf_pct = "optimal" THEN 2
               ELSE IF chemistry.lsf_pct = "critical" THEN -4 ELSE 0)
    IN  Min(MaxScore, Max(MinScore, base))

\* energy_saved_kwh, cost_saved_usd and co2_reduced_kg, each rounded to two
\* decimals and held in hundredths.
_calculate_energy_savings(pd, energy) ==
    LET sec == ReportSec(pd, energy)
        feed == Get(pd.grinding.feed, DefaultFeed)
        reference_feed == IF feed \in {0, Null} THEN DefaultFeed ELSE feed
        over == (sec[1] - TargetSec * sec[2]) * reference_feed
    IN  IF over <= 0
        THEN [energy_saved_kwh |-> 0, cost_saved_usd |-> 0, co2_reduced_kg |-> 0]
        ELSE [energy_saved_kwh |-> RoundDiv(100 * over, sec[2]),
              cost_saved_usd |-> RoundDiv(15 * over, sec[2]),
              co2_reduced_kg |-> RoundDiv(50 * over, sec[2])]

\* A recommendation record whose priorities count from 0.
RecFromZero(area, type, priority, kwh) ==
    [process_area |-> area, recommendation_type |-> type,
     priority_level |-> priority - 1, estimated_savings_kwh |-> kwh,
     estimated_savings_cost |-> 15 * kwh]

\* A recommendation record; the cost is in cents.
Rec(area, type, priority, kwh) ==
    [process_area |-> area, recommendation_type |-> type,
     priority_level |-> priority, estimated_savings_kwh |-> kwh,
     estimated_savings_cost |-> 15 * kwh]

_generate_recommendations(pd, energy, chemistry, fuel) ==
    (IF energy.status = "critical"
     THEN << Rec("grinding", "energy_optimization", 1, energy.potential_savings_kwh) >>
     ELSE IF energy.potential_savings_kwh > 0
     THEN << Rec("grinding", "energy_optimization", 2, energy.potential_savings_kwh) >>
     ELSE << >>)
    \o (IF chemistry.lsf_pct = "critical"
        THEN << Rec("raw_material", "quality_stability", 1, 0) >>
        ELSE << >>)
    \o (IF fuel.current_tsr < 100 * fuel.target_tsr
        THEN << Rec("kiln", "alternative_fuel", 3, 0) >>
        ELSE << >>)

NoSavings ==
    [energy_saved_kwh |-> Absent, cost_saved_usd |-> Absent, co2_reduced_kg |-> Absent]

generate_comprehensive_report(pd) ==
    LET chemistry == analyze_chemistry(pd.raw_material)
        energy == analyze_grinding_efficiency(pd.grinding)
        fuel == optimize_fuel_mix(pd.kiln, DefaultTargetTsr)
    IN  IF ReportRaises(pd)
        THEN [error |-> TRUE, chemistry |-> None, energy |-> None,
              fuel_optimization |-> None, plant_efficiency_score |-> Null,
              energy_savings |-> NoSavings, recommendations |-> << >>]
        ELSE [error |-> FALSE, chemistry |-> Some(chemistry),
              energy |-> Some(energy), fuel_optimization |-> Some(fuel),
              plant_efficiency_score |->
                  _calculate_plant_efficiency(pd, energy, fuel, chemistry),
              energy_savings |-> _calculate_energy_savings(pd, energy),
              recommendations |->
                  _generate_recommendations(pd, energy, chemistry, fuel)]

\* ------------------------------------------------- _get_plant_data_summary
\* power / feed_rate raises when the grinding row has a null power and a
\* truthy feed rate; the except branch returns four empty sections.
SummaryRaises(grinding) ==
    /\ ~IsNone(grinding)
    /\ Get(Val(grinding).feed, DefaultFeed) \notin {0, Null}
    /\ Get(Val(grinding).power, DefaultPower) = Null

OrEmpty(row, empty) == IF IsNone(row) THEN empty ELSE Val(row)

OverviewSec(grinding) ==
    IF IsNone(grinding) THEN None
    ELSE LET feed == Get(Val(grinding).feed, DefaultFeed)
         IN  IF feed \in {0, Null} THEN Some(<<TargetSec, 1>>)
             ELSE Some(<<Get(Val(grinding).power, DefaultPower), feed>>)

_get_plant_data_summary(raw_material, grinding, kiln, quality) ==
    IF SummaryRaises(grinding)
    THEN [raw_material |-> EmptyRaw, grinding |-> EmptyGrinding,
          kiln |-> EmptyKiln, overview |-> [sec |-> None, quality |-> Absent]]
    ELSE [raw_material |-> OrEmpty(raw_material, EmptyRaw),
          grinding |-> OrEmpty(grinding, EmptyGrinding),
          kiln |-> OrEmpty(kiln, EmptyKiln),
          overview |->
              [sec |-> OverviewSec(grinding),
               quality |-> IF IsNone(quality) THEN Absent
                           ELSE Get(Val(quality).score, DefaultQuality)]]

\* ------------------------------------------------------------------- state
Jobs == {"realtime_processing", "optimization_analysis", "equipment_health",
         "sample_data"}
Realtime == "realtime_processing"
Optimization == "optimization_analysis"
Health == "equipment_health"
Sample == "sample_data"

VARIABLES
    run,                 \* run[j][s]: the run of job j in executor slot s
    escaped,             \* escaped[j]: an exception left a body of job j
    store,               \* the store: latest row per stream, the two tables
    active_connections,  \* ConnectionManager.active_connections (a list)
    connection_info,     \* the keys of ConnectionManager.connection_info
    conn,                \* conn[c]: the endpoint handler of handle c and its peer
    app,                 \* app.state: the scheduler and the store handle
    calc,                \* the last call of a calculator: its input and result
    ack                  \* the last answer of the acknowledgment route

vars == <<run, escaped, store, active_connections, connection_info, conn, app,
          calc, ack>>

NoMsg ==
    [type |-> "none", created_at |-> FALSE, recs |-> << >>, savings |-> NoSavings,
     report |-> None]

\* The locals of a run: pc is the await it is suspended at.  From snapshot
\* on the fields are history: what the run has done and met so far.
IdleRun ==
    [pc |-> "idle",
     latest_grinding |-> None, alerts |-> << >>,
     raw |-> None, grinding |-> None, kiln |-> None,
     recs |-> << >>, optimization_record |-> None,
     msg |-> NoMsg, idx |-> 0, cur |-> 0, disconnected |-> << >>,
     snapshot |-> {}, delivered |-> {}, eligible |-> {}, solo |-> TRUE,
     status |-> "none", produced |-> 0, inserts |-> 0, persisted |-> << >>,
     store_failed |-> FALSE, broadcasts |-> 0, dropped |-> FALSE,
     result_inserts |-> 0, result_rows |-> << >>, equipment_data |-> 0]

Range(q) == {q[i] : i \in DOMAIN q}

NoCall == [calculator |-> "none", input |-> None, result |-> None]

\* No acknowledgment has been answered yet.
NoAnswer == [id |-> 0, data |-> "none", status |-> 0]

\* The executor's _instances[job_id]: runs submitted and not yet released.
instances(j) == Cardinality({s \in Slots : run[j][s].pc # "idle"})

Init ==
    /\ run = [j \in Jobs |-> [s \in Slots |-> IdleRun]]
    /\ escaped = [j \in Jobs |-> FALSE]
    /\ store = [up |-> TRUE, raw_material |-> None, grinding |-> None,
                kiln |-> None, quality |-> None, ai_recommendations |-> << >>,
                optimization_results |-> << >>, utilities |-> 0]
    /\ active_connections = << >>
    /\ connection_info = {}
    /\ conn = [c \in Conns |-> [pc |-> "new", endpoint |-> "none", healthy |-> TRUE]]
    /\ app = [scheduler |-> "running", supabase |-> "open"]
    /\ calc = NoCall
    /\ ack = NoAnswer

\* ----------------------------------------------------- ConnectionManager
RECURSIVE RemoveFirst(_, _)
\* list.remove(x): drops the first occurrence of x.
RemoveFirst(q, x) ==
    IF q = << >> THEN << >>
    ELSE IF Head(q) = x THEN Tail(q)
    ELSE <<Head(q)>> \o RemoveFirst(Tail(q), x)

\* A disconnect that resets the registry when the handle is not registered.
disconnect_resets(reg, c) ==
    IF c \in Range(reg.active)
    THEN [active |-> RemoveFirst(reg.active, c), info |-> reg.info \ {c}]
    ELSE [active |-> << >>, info |-> {}]

\* A disconnect that leaves the handle's entry in connection_info.
disconnect_keeps_info(reg, c) ==
    IF c \in Range(reg.active)
    THEN [active |-> RemoveFirst(reg.active, c), info |-> reg.info]
    ELSE reg

\* A disconnect that empties the registry.
disconnect_everyone(reg, c) == [active |-> << >>, info |-> {}]

\* disconnect(websocket) on the registry reg = [active, info].
disconnect(reg, c) ==
    IF c \in Range(reg.active)
    THEN [active |-> RemoveFirst(reg.active, c), info |-> reg.info \ {c}]
    ELSE reg

RECURSIVE DisconnectAll(_, _)
\* for conn in disconnected: self.disconnect(conn)
DisconnectAll(reg, q) ==
    IF q = << >> THEN reg
    ELSE DisconnectAll(disconnect(reg, Head(q)), Tail(q))

Registry == [active |-> active_connections, info |-> connection_info]

\* What a step of somebody else does to the history of a run that is in a
\* sweep: `gone` are the handles that stopped being registered or healthy,
\* `registry_op` says the step was an operation of the registry.
Touch(r, gone, registry_op) ==
    IF r.pc = "send"
    THEN [r EXCEPT !.eligible = @ \ gone, !.solo = @ /\ ~registry_op]
    ELSE IF r.pc = "done" THEN [r EXCEPT !.solo = @ /\ ~registry_op]
    ELSE r

TouchAll(gone, registry_op) ==
    [j \in Jobs |-> [s \in Slots |-> Touch(run[j][s], gone, registry_op)]]

\* run' when the run in slot s of job j becomes r and the step is, for the
\* other runs, as Touch says.
RunBecomes(j, s, r, gone, registry_op) ==
    run' = [TouchAll(gone, registry_op) EXCEPT ![j][s] = r]

\* ------------------------------------------------------------ the scheduler
\* add_job(..., max_instances=1, coalesce=True), the same for the four jobs.
max_instances == 1

\* An executor that compares with <= where the code's has <.
SubmitAllowedOffByOne(n) == n <= max_instances

\* The executor's test on a tick of a job with n runs in flight: at
\* max_instances the run is skipped (not submitted, not queued).
SubmitAllowed(n) == n < max_instances

\* The await a new run of job j first suspends at.
FirstPc(j) ==
    CASE j = Realtime -> "rt_get_raw"
      [] j = Optimization -> "sum_raw"
      [] j = Health -> "eq_get_recent"
      [] j = Sample -> "sample_log"

FreeSlot(j) == CHOOSE s \in Slots :
    /\ run[j][s].pc = "idle"
    /\ \A t \in Slots : run[j][t].pc = "idle" => s <= t

\* The interval trigger of job j fires: a run is submitted, or the tick is
\* dropped (what the runs in flight remember of it is history).
Tick(j) ==
    /\ app.scheduler = "running"
    /\ IF SubmitAllowed(instances(j)) /\ \E s \in Slots : run[j][s].pc = "idle"
       THEN run' = [run EXCEPT ![j][FreeSlot(j)] = [IdleRun EXCEPT !.pc = FirstPc(j)]]
       ELSE run' = [run EXCEPT ![j] = [s \in Slots |->
                        IF run[j][s].pc = "idle" THEN run[j][s]
                        ELSE [run[j][s] EXCEPT !.dropped = TRUE]]]
    /\ UNCHANGED <<escaped, store, active_connections, connection_info, conn, app, calc, ack>>

\* An executor that runs a job again at once when ticks were dropped during
\* its run.
ReleasedMakesUp(j, dropped) ==
    IF dropped THEN [IdleRun EXCEPT !.pc = FirstPc(j)] ELSE IdleRun

\* What is left in the slot of a run of job j when the executor's done
\* callback releases it: the job is idle again, whether or not ticks were
\* dropped meanwhile.
Released(j, dropped) == IdleRun

\* The body of the run in slot s of job j has returned or raised.
Finish(j, s) ==
    /\ run[j][s].pc = "done"
    /\ run' = [run EXCEPT ![j][s] = Released(j, run[j][s].dropped)]
    /\ UNCHANGED <<escaped, store, active_connections, connection_info, conn, app, calc, ack>>

\* --------------------------------------------------------------- exceptions
\* Store methods and a broadcast loop without their own try: every exception
\* stops in the except clause of the job body.
CaughtByJobOnly(site) == "job"

\* No try anywhere: every exception leaves the job body.
CaughtNowhere(site) == "scheduler"

\* Where an exception raised at a site stops: a failed store call in the try
\* of the SupabaseManager method that made it, a failed send_text in the try
\* of broadcast's loop.  "job" is the except clause of the job body,
\* "scheduler" is past it.
CaughtAt(site) ==
    CASE site = "store" -> "store"
      [] site = "send" -> "broadcast"

\* A run whose body is left by an exception.
Unwound(r) == [r EXCEPT !.pc = "done", !.cur = 0]

\* ---------------------------------------------------------- SupabaseManager
\* get_latest: the newest row, None for an empty table and on any error.
get_latest(fault, latest) == IF fault THEN None ELSE latest

\* The newest MaxRows rows of a table: older rows are read by nothing here.
Newest(q) == IF Len(q) > MaxRows THEN Tail(q) ELSE q

\* insert: the table after the call; nothing is written on an error.
insert(fault, table, row) == IF fault THEN table ELSE Newest(Append(table, row))

\* A get_recent without its limit.
get_recent_unlimited(fault, rows, limit) == IF fault THEN 0 ELSE rows

\* get_recent(table, limit) on a table of `rows` rows, as the number of rows
\* returned: [] when the call fails.
get_recent(fault, rows, limit) == IF fault THEN 0 ELSE Min(rows, limit)

\* A store call fails while the store is down.
ReadFault == ~store.up
InsertFault(table) == ~store.up

\* An alert row that is created as acted upon.
AlertRowActedUpon(rec) ==
    [process_area |-> rec.process_area,
     recommendation_type |-> rec.recommendation_type,
     priority_level |-> rec.priority_level,
     estimated_savings_kwh |-> rec.estimated_savings_kwh,
     estimated_savings_cost |-> rec.estimated_savings_cost,
     action_taken |-> TRUE]

\* An alert row as the jobs build it from a recommendation record.
AlertRow(rec) ==
    [process_area |-> rec.process_area,
     recommendation_type |-> rec.recommendation_type,
     priority_level |-> rec.priority_level,
     estimated_savings_kwh |-> rec.estimated_savings_kwh,
     estimated_savings_cost |-> rec.estimated_savings_cost,
     action_taken |-> FALSE]

\* ------------------------------------------------- ConnectionManager.broadcast
\* The for loop over self.active_connections asks the list iterator for its
\* next item: the item at position r.idx + 1 of the list as it is now, or
\* the end of the loop.
SweepNext(r) ==
    IF r.idx < Len(active_connections)
    THEN [r EXCEPT !.idx = @ + 1, !.cur = active_connections[r.idx + 1]]
    ELSE [r EXCEPT !.pc = "sweep_end", !.cur = 0]

\* A loop that goes on after a failed send without noting the handle.
OnSendErrorIgnores(r, c) == SweepNext(r)

\* A loop that ends at the first failed send.
OnSendErrorBreaks(r, c) ==
    [r EXCEPT !.disconnected = Append(@, c), !.pc = "sweep_end", !.cur = 0]

\* A loop that sends to the same handle again until the send succeeds.
OnSendErrorRetries(r, c) == r

\* except: disconnected.append(connection), and the loop goes on.
OnSendError(r, c) ==
    SweepNext([r EXCEPT !.disconnected = Append(@, c)])

\* broadcast(message) up to its first await: the early return on an empty
\* list, else the first send_text.
BeginBroadcast(r, msg) ==
    LET b == [r EXCEPT !.msg = msg, !.broadcasts = @ + 1]
    IN  IF active_connections = << >>
        THEN [b EXCEPT !.pc = "done"]
        ELSE [b EXCEPT !.pc = "send", !.idx = 1, !.cur = active_connections[1],
                       !.snapshot = Range(active_connections),
                       !.eligible = {c \in Range(active_connections) : conn[c].healthy}]

\* The send_text of the run in slot s of job j returns or raises; the loop
\* goes on to its next send_text, or ends and the failed handles are
\* unregistered.
Send(j, s) ==
    LET r == run[j][s]
        c == r.cur
        ok == conn[c].healthy
        tier == CaughtAt("send")
        r2 == IF ok THEN SweepNext([r EXCEPT !.delivered = @ \cup {c}])
              ELSE OnSendError(r, c)
        reg == DisconnectAll(Registry, r2.disconnected)
    IN  /\ r.pc = "send"
        /\ IF ~ok /\ tier # "broadcast"
           THEN /\ RunBecomes(j, s, Unwound(r), {}, TRUE)
                /\ escaped' = [escaped EXCEPT ![j] = @ \/ tier = "scheduler"]
                /\ UNCHANGED <<active_connections, connection_info>>
           ELSE IF r2.pc = "sweep_end"
           THEN /\ RunBecomes(j, s, [r2 EXCEPT !.pc = "done"],
                              Range(active_connections) \ Range(reg.active), TRUE)
                /\ active_connections' = reg.active
                /\ connection_info' = reg.info
                /\ UNCHANGED escaped
           ELSE /\ RunBecomes(j, s, r2, {}, TRUE)
                /\ UNCHANGED <<escaped, active_connections, connection_info>>
        /\ UNCHANGED <<store, conn, app, calc, ack>>

\* ------------------------------------------------------ the realtime job
\* An alert for every status above the target band, not only "critical".
RealtimeAlertsAboveTarget(latest_grinding) ==
    IF IsNone(latest_grinding) THEN << >>
    ELSE LET g == analyze_grinding_efficiency(Val(latest_grinding))
         IN  IF g.status \in {"critical", "acceptable"}
             THEN << Rec("grinding", "energy_optimization", 1, g.potential_savings_kwh) >>
             ELSE << >>

\* The alerts list process_realtime_data builds from latest_grinding.
RealtimeAlerts(latest_grinding) ==
    IF IsNone(latest_grinding) THEN << >>
    ELSE LET g == analyze_grinding_efficiency(Val(latest_grinding))
         IN  IF g.status = "critical"
             THEN << Rec("grinding", "energy_optimization", 1, g.potential_savings_kwh) >>
             ELSE << >>

RealtimeStatus(latest_grinding) ==
    IF IsNone(latest_grinding) THEN "none"
    ELSE analyze_grinding_efficiency(Val(latest_grinding)).status

\* for record in pending: await self.db.insert(...): the next await is the
\* insert of the first pending record, or what follows the loop.
InsertLoop(pending, insert_pc, exit_pc) ==
    IF pending # << >> THEN insert_pc ELSE exit_pc

\* A step of a run that fails in a store call whose exception is not caught
\* in the store's own try.
StoreUnwinds(j, s, r) ==
    /\ RunBecomes(j, s, Unwound([r EXCEPT !.store_failed = TRUE]), {}, FALSE)
    /\ escaped' = [escaped EXCEPT ![j] = @ \/ CaughtAt("store") = "scheduler"]

\* One of the three get_latest calls at the head of process_realtime_data
\* returns; after the third the alerts are built (latest_grinding is not
\* read again).
RtGetLatest(s) ==
    LET r == run[Realtime][s]
        fault == ReadFault
        r1 == [r EXCEPT !.store_failed = @ \/ fault]
    IN
    /\ r.pc \in {"rt_get_raw", "rt_get_grinding", "rt_get_kiln"}
    /\ IF fault /\ CaughtAt("store") # "store"
       THEN StoreUnwinds(Realtime, s, r)
       ELSE /\ UNCHANGED escaped
            /\ CASE r.pc = "rt_get_raw" ->
                      RunBecomes(Realtime, s, [r1 EXCEPT !.pc = "rt_get_grinding"], {}, FALSE)
                 [] r.pc = "rt_get_grinding" ->
                      RunBecomes(Realtime, s,
                          [r1 EXCEPT !.pc = "rt_get_kiln",
                                     !.latest_grinding = get_latest(fault, store.grinding)],
                          {}, FALSE)
                 [] r.pc = "rt_get_kiln" ->
                      LET alerts == RealtimeAlerts(r.latest_grinding) IN
                      RunBecomes(Realtime, s,
                          [r1 EXCEPT !.alerts = alerts,
                                     !.produced = Len(alerts),
                                     !.status = RealtimeStatus(r.latest_grinding),
                                     !.latest_grinding = None,
                                     !.pc = InsertLoop(alerts, "rt_insert", "sum_raw")],
                          {}, FALSE)
    /\ UNCHANGED <<store, active_connections, connection_info, conn, app, calc, ack>>

\* The insert of an alert or recommendation record returns.
InsertAlert(j, s, insert_pc, exit_pc) ==
    LET r == run[j][s]
        pending == IF j = Realtime THEN r.alerts ELSE r.recs
        row == AlertRow(Head(pending))
        fault == InsertFault(store.ai_recommendations)
        r1 == [r EXCEPT !.store_failed = @ \/ fault,
                        !.inserts = @ + 1,
                        !.persisted = IF fault THEN @ ELSE Append(@, row),
                        !.pc = InsertLoop(Tail(pending), insert_pc, exit_pc)]
    IN
    /\ r.pc = insert_pc
    /\ IF fault /\ CaughtAt("store") # "store"
       THEN /\ StoreUnwinds(j, s, r)
            /\ UNCHANGED store
       ELSE /\ RunBecomes(j, s,
                  IF j = Realtime THEN [r1 EXCEPT !.alerts = Tail(pending)]
                  ELSE [r1 EXCEPT !.recs = Tail(pending)], {}, FALSE)
            /\ store' = [store EXCEPT !.ai_recommendations = insert(fault, @, row)]
            /\ UNCHANGED escaped
    /\ UNCHANGED <<active_connections, connection_info, conn, app, calc, ack>>

RtInsert(s) == InsertAlert(Realtime, s, "rt_insert", "sum_raw")

\* --------------------------------------------- the summary and what follows
PlantUpdate ==
    [type |-> "plant_update", created_at |-> TRUE, recs |-> << >>,
     savings |-> NoSavings, report |-> None]

OptimizationMsg(kpi) ==
    [type |-> "optimization", created_at |-> FALSE, recs |-> kpi.recommendations,
     savings |-> kpi.energy_savings, report |-> Some(kpi)]

\* A ledger row that does not take its figures from the report.
OptimizationRecordZeros(kpi) ==
    [energy_saved_kwh |-> 0, cost_saved_usd |-> 0, co2_reduced_kg |-> 0,
     model_confidence |-> 92]

\* optimization_record of run_optimization_analysis (hundredths).
OptimizationRecord(kpi) ==
    [energy_saved_kwh |-> Get(kpi.energy_savings.energy_saved_kwh, 0),
     cost_saved_usd |-> Get(kpi.energy_savings.cost_saved_usd, 0),
     co2_reduced_kg |-> Get(kpi.energy_savings.co2_reduced_kg, 0),
     model_confidence |-> 92]

\* run_optimization_analysis from the return of _get_plant_data_summary to
\* its next await.
AfterSummaryOptimization(r, plant_data) ==
    CHOOSE after \in
        { [r EXCEPT !.recs = kpi.recommendations,
                    !.produced = Len(kpi.recommendations),
                    !.optimization_record = Some(OptimizationRecord(kpi)),
                    !.msg = OptimizationMsg(kpi),
                    !.pc = InsertLoop(kpi.recommendations, "opt_insert_rec",
                                      "opt_insert_result")] :
          kpi \in {generate_comprehensive_report(plant_data)} } : TRUE

\* One of the four get_latest calls of _get_plant_data_summary returns, in
\* _broadcast_plant_update (realtime) or in run_optimization_analysis; the
\* locals of the summary end with it.
SummaryGet(j, s) ==
    LET r == run[j][s]
        fault == ReadFault
        r1 == [r EXCEPT !.store_failed = @ \/ fault]
        r2 == [r1 EXCEPT !.raw = None, !.grinding = None, !.kiln = None]
    IN
    /\ j \in {Realtime, Optimization}
    /\ r.pc \in {"sum_raw", "sum_grinding", "sum_kiln", "sum_quality"}
    /\ IF fault /\ CaughtAt("store") # "store"
       THEN StoreUnwinds(j, s, r)
       ELSE /\ UNCHANGED escaped
            /\ CASE r.pc = "sum_raw" ->
                      RunBecomes(j, s, [r1 EXCEPT !.pc = "sum_grinding",
                          !.raw = get_latest(fault, store.raw_material)], {}, FALSE)
                 [] r.pc = "sum_grinding" ->
                      RunBecomes(j, s, [r1 EXCEPT !.pc = "sum_kiln",
                          !.grinding = get_latest(fault, store.grinding)], {}, FALSE)
                 [] r.pc = "sum_kiln" ->
                      RunBecomes(j, s, [r1 EXCEPT !.pc = "sum_quality",
                          !.kiln = get_latest(fault, store.kiln)], {}, FALSE)
                 [] r.pc = "sum_quality" ->
                      LET plant_data == _get_plant_data_summary(r.raw, r.grinding,
                                            r.kiln, get_latest(fault, store.quality))
                      IN  IF j = Realtime
                          THEN RunBecomes(j, s, BeginBroadcast(r2, PlantUpdate), {}, TRUE)
                          ELSE RunBecomes(j, s, AfterSummaryOptimization(r2, plant_data),
                                          {}, FALSE)
    /\ UNCHANGED <<store, active_connections, connection_info, conn, app, calc, ack>>

\* ------------------------------------------------------ the optimization job
OptInsertRec(s) == InsertAlert(Optimization, s, "opt_insert_rec", "opt_insert_result")

\* The insert of the optimization_results row returns; the broadcast of the
\* report starts.
OptInsertResult(s) ==
    LET r == run[Optimization][s]
        fault == InsertFault(store.optimization_results)
    IN
    /\ r.pc = "opt_insert_result"
    /\ IF fault /\ CaughtAt("store") # "store"
       THEN /\ StoreUnwinds(Optimization, s, r)
            /\ UNCHANGED store
       ELSE /\ RunBecomes(Optimization, s,
                  BeginBroadcast(
                      [r EXCEPT !.store_failed = @ \/ fault,
                                !.result_inserts = @ + 1,
                                !.result_rows = IF fault THEN @
                                                ELSE Append(@, Val(r.optimization_record)),
                                !.optimization_record = None], r.msg),
                  {}, TRUE)
            /\ store' = [store EXCEPT !.optimization_results =
                            insert(fault, @, Val(r.optimization_record))]
            /\ UNCHANGED escaped
    /\ UNCHANGED <<active_connections, connection_info, conn, app, calc, ack>>

\* ------------------------------------------- equipment health, sample data
\* limit=20 of check_equipment_health.
EqLimit == 20

\* get_recent(UTILITIES_MONITORING, where={}, limit=20) returns; the loop
\* over the rows does nothing.
EqGetRecent(s) ==
    LET r == run[Health][s]
        fault == ReadFault
    IN
    /\ r.pc = "eq_get_recent"
    /\ IF fault /\ CaughtAt("store") # "store"
       THEN StoreUnwinds(Health, s, r)
       ELSE /\ RunBecomes(Health, s,
                  [r EXCEPT !.store_failed = @ \/ fault, !.pc = "done",
                            !.equipment_data =
                                get_recent(fault, store.utilities, EqLimit)],
                  {}, FALSE)
            /\ UNCHANGED escaped
    /\ UNCHANGED <<store, active_connections, connection_info, conn, app, calc, ack>>

\* populate_sample_data logs one line.
SampleLog(s) ==
    /\ run[Sample][s].pc = "sample_log"
    /\ run' = [run EXCEPT ![Sample][s].pc = "done"]
    /\ UNCHANGED <<escaped, store, active_connections, connection_info, conn, app, calc, ack>>

\* ------------------------------------------------- the websocket endpoints
Endpoints == {"plant_data", "alerts"}

\* The message the handler of an endpoint sends to its new subscriber, as
\* its type and the keys of the JSON object.
Greeting(endpoint) ==
    IF endpoint = "plant_data"
    THEN [type |-> "initial", keys |-> {"type", "data"}]
    ELSE [type |-> "welcome", keys |-> {"type", "message"}]

\* The keys of the JSON object a job broadcasts.
BroadcastKeys(msg) ==
    {"type", "data"} \cup (IF msg.created_at THEN {"created_at"} ELSE {})

\* manager.connect: the handshake is accepted and the handle registered.
Connect(c, endpoint) ==
    /\ conn[c].pc = "new"
    /\ active_connections' = Append(active_connections, c)
    /\ connection_info' = connection_info \cup {c}
    /\ conn' = [conn EXCEPT ![c].endpoint = endpoint,
                            ![c].pc = IF endpoint = "plant_data" THEN "loading"
                                      ELSE "greeting"]
    /\ run' = TouchAll({}, TRUE)
    /\ UNCHANGED <<escaped, store, app, calc, ack>>

\* _get_initial_plant_data has returned; the send of the initial message
\* starts.
LoadInitial(c) ==
    /\ conn[c].pc = "loading"
    /\ conn' = [conn EXCEPT ![c].pc = "greeting"]
    /\ UNCHANGED <<run, escaped, store, active_connections, connection_info, app, calc, ack>>

\* send_personal_message returns: a failed send unregisters the handle; the
\* handler goes on to sleep either way.
Greeted(c) ==
    LET reg == IF conn[c].healthy THEN Registry ELSE disconnect(Registry, c) IN
    /\ conn[c].pc = "greeting"
    /\ conn' = [conn EXCEPT ![c].pc = "open"]
    /\ active_connections' = reg.active
    /\ connection_info' = reg.info
    /\ run' = TouchAll(Range(active_connections) \ Range(reg.active), TRUE)
    /\ UNCHANGED <<escaped, store, app, calc, ack>>

\* ---------------------------------------------------------- the environment
\* The peer of an accepted handle goes away: every later send to it fails.
Break(c) ==
    /\ conn[c].pc # "new"
    /\ conn[c].healthy
    /\ conn' = [conn EXCEPT ![c].healthy = FALSE]
    /\ run' = TouchAll({c}, FALSE)
    /\ UNCHANGED <<escaped, store, active_connections, connection_info, app, calc, ack>>

\* The store stops answering (timeout, transport error), and answers again.
StoreDown ==
    /\ store.up
    /\ store' = [store EXCEPT !.up = FALSE]
    /\ UNCHANGED <<run, escaped, active_connections, connection_info, conn, app, calc, ack>>

StoreUp ==
    /\ ~store.up
    /\ store' = [store EXCEPT !.up = TRUE]
    /\ UNCHANGED <<run, escaped, active_connections, connection_info, conn, app, calc, ack>>

\* The ingestion path stores a new latest row.
IngestGrinding(row) ==
    /\ store.grinding # Some(row)
    /\ store' = [store EXCEPT !.grinding = Some(row)]
    /\ UNCHANGED <<run, escaped, active_connections, connection_info, conn, app, calc, ack>>

\* Utilities readings stored so far (the model stops counting at
\* MaxUtilities).
IngestUtilities ==
    /\ store.utilities < MaxUtilities
    /\ store' = [store EXCEPT !.utilities = @ + 1]
    /\ UNCHANGED <<run, escaped, active_connections, connection_info, conn, app, calc, ack>>

IngestOther ==
    /\ IsNone(store.raw_material)
    /\ \E m \in RawRows, k \in KilnRows, q \in QualityRows :
         store' = [store EXCEPT !.raw_material = Some(m), !.kiln = Some(k),
                                !.quality = Some(q)]
    /\ UNCHANGED <<run, escaped, active_connections, connection_info, conn, app, calc, ack>>

\* ------------------------------------------------- lifespan, after the yield
\* app.state.scheduler.shutdown(wait=True) is a plain call made on the event
\* loop the runs are tasks of, so no run moves while it is made; the call of
\* supabase.close() follows without an await in between and suspends at
\* the first sign_out.
Shutdown ==
    /\ app.scheduler = "running"
    /\ app' = [scheduler |-> "stopped", supabase |-> "closing"]
    /\ UNCHANGED <<run, escaped, store, active_connections, connection_info, conn, calc, ack>>

\* SupabaseManager.close has returned: both clients are signed out.
CloseDone ==
    /\ app.supabase = "closing"
    /\ app' = [app EXCEPT !.supabase = "closed"]
    /\ UNCHANGED <<run, escaped, store, active_connections, connection_info, conn, calc, ack>>

\* The task of a run that is suspended at an await is cancelled by the
\* executor of the stopped scheduler: CancelledError is no Exception, so no
\* except clause of the body or of the store catches it, and the run ends
\* where it was.  An executor that leaves the tasks alone lets the run go on
\* instead.
Cancel(j, s) ==
    /\ app.scheduler = "stopped"
    /\ run[j][s].pc \notin {"idle", "done"}
    /\ RunBecomes(j, s, IdleRun, {}, FALSE)
    /\ UNCHANGED <<escaped, store, active_connections, connection_info, conn, app, calc, ack>>

\* ------------------------------------------------------ the acknowledgment
\* SupabaseManager.update(table, {"id": id}, data): response.data, the list
\* of the rows that matched (empty when none did), or None when the call
\* raised; the matched row carries the new values.
update(st, id) ==
    IF ~st.up THEN [data |-> "None", store |-> st]
    ELSE IF id \in DOMAIN st.ai_recommendations
    THEN [data |-> "rows",
          store |-> [st EXCEPT !.ai_recommendations[id].action_taken = TRUE]]
    ELSE [data |-> "empty", store |-> st]

\* The status mark_recommendation_action answers with: 200 for a truthy
\* result; else it raises HTTPException(404) inside its try, whose
\* `except Exception` catches it and raises HTTPException(500).
Answer(data) == IF data = "rows" THEN 200 ELSE 500

\* POST /recommendations/{id}/action: the row at position id of the alert
\* table is the row with that id.
Acknowledge(id) ==
    LET u == update(store, id) IN
    /\ store' = u.store
    /\ ack' = [id |-> id, data |-> u.data, status |-> Answer(u.data)]
    /\ UNCHANGED <<run, escaped, active_connections, connection_info, conn, app, calc>>

\* ------------------------------------------------- calls of the calculators
\* A caller (an analytics route, an agent tool) gets the result of a
\* calculator back; every field of the argument is absent, null or a number.
CallChemistry ==
    /\ \E m \in [cao : {Absent, Null, 569, 608, 646}, sio2 : {Absent, Null, 200},
                 al2o3 : {Absent, 50}, fe2o3 : {Absent, 30}] :
         calc' = [calculator |-> "chemistry", input |-> Some(m),
                  result |-> Some(analyze_chemistry(m))]
    /\ UNCHANGED <<run, escaped, store, active_connections, connection_info, conn, app, ack>>

CallGrinding ==
    /\ \E g \in [power : {Absent, Null, 2600}, feed : {Absent, Null, 0, 80}] :
         calc' = [calculator |-> "grinding", input |-> Some(g),
                  result |-> Some(analyze_grinding_efficiency(g))]
    /\ UNCHANGED <<run, escaped, store, active_connections, connection_info, conn, app, ack>>

CallFuel ==
    /\ \E k \in [coal : {Absent, Null, 70}, alt : {Absent, Null, 30},
                 alt_type : {"absent", "waste_tire"}],
          target_tsr \in {DefaultTargetTsr, FeasibleTsr, FeasibleTsr + 1} :
         calc' = [calculator |-> "fuel", input |-> Some(k),
                  result |-> Some(optimize_fuel_mix(k, target_tsr))]
    /\ UNCHANGED <<run, escaped, store, active_connections, connection_info, conn, app, ack>>

CallHealth ==
    /\ \E a \in [efficiency : {Null, 90}, current_power : {Null, 120},
                 baseline_power : {Null, 0, 100},
                 maintenance_days : {Null, 3, 10}] :
         calc' = [calculator |-> "health", input |-> Some(a),
                  result |-> Some(calculate_equipment_health_score(a))]
    /\ UNCHANGED <<run, escaped, store, active_connections, connection_info, conn, app, ack>>

\* -------------------------------------------------------- the specifications
\* The whole system.
Next ==
    \/ \E j \in Jobs : Tick(j)
    \/ \E s \in Slots : RtGetLatest(s)
    \/ \E s \in Slots : RtInsert(s)
    \/ \E j \in Jobs, s \in Slots : SummaryGet(j, s)
    \/ \E s \in Slots : OptInsertRec(s)
    \/ \E s \in Slots : OptInsertResult(s)
    \/ \E s \in Slots : EqGetRecent(s)
    \/ \E s \in Slots : SampleLog(s)
    \/ \E j \in Jobs, s \in Slots : Send(j, s)
    \/ \E j \in Jobs, s \in Slots : Finish(j, s)
    \/ \E c \in Conns, e \in Endpoints : Connect(c, e)
    \/ \E c \in Conns : LoadInitial(c)
    \/ \E c \in Conns : Greeted(c)
    \/ \E c \in Conns : Break(c)
    \/ StoreDown
    \/ StoreUp
    \/ \E row \in GrindingRows : IngestGrinding(row)
    \/ IngestOther

Spec == Init /\ [][Next]_vars

\* The steps of the runs of job j: each await of its body returning, and the
\* executor's release of the ended run.
RunStep(j) ==
    \E s \in Slots :
        \/ (j = Realtime /\ RtGetLatest(s))
        \/ (j = Realtime /\ RtInsert(s))
        \/ SummaryGet(j, s)
        \/ (j = Optimization /\ OptInsertRec(s))
        \/ (j = Optimization /\ OptInsertResult(s))
        \/ (j = Health /\ EqGetRecent(s))
        \/ (j = Sample /\ SampleLog(s))
        \/ Send(j, s)
        \/ Finish(j, s)

\* The scheduler and the four job bodies, the store answering and filling
\* with readings, nobody subscribed: ticks fall at any moment of a run.
NextSched ==
    \/ \E j \in Jobs : Tick(j)
    \/ \E s \in Slots : RtGetLatest(s)
    \/ \E j \in Jobs, s \in Slots : SummaryGet(j, s)
    \/ \E s \in Slots : OptInsertRec(s)
    \/ \E s \in Slots : OptInsertResult(s)
    \/ \E s \in Slots : EqGetRecent(s)
    \/ \E s \in Slots : SampleLog(s)
    \/ \E j \in Jobs, s \in Slots : Finish(j, s)
    \/ IngestOther

SpecSched == Init /\ [][NextSched]_vars

\* One broadcaster (the realtime job) and the subscribers of both endpoints,
\* whose peers may go away at any moment.
NextBroadcast ==
    \/ Tick(Realtime)
    \/ \E s \in Slots : RtGetLatest(s)
    \/ \E s \in Slots : SummaryGet(Realtime, s)
    \/ \E s \in Slots : Send(Realtime, s)
    \/ \E s \in Slots : Finish(Realtime, s)
    \/ \E c \in Conns, e \in Endpoints : Connect(c, e)
    \/ \E c \in Conns : LoadInitial(c)
    \/ \E c \in Conns : Greeted(c)
    \/ \E c \in Conns : Break(c)

SpecBroadcast == Init /\ [][NextBroadcast]_vars

\* The two broadcasting jobs side by side and the subscribers of the alerts
\* endpoint.
NextRegistry ==
    \/ \E j \in {Realtime, Optimization} : Tick(j)
    \/ \E s \in Slots : RtGetLatest(s)
    \/ \E j \in Jobs, s \in Slots : SummaryGet(j, s)
    \/ \E s \in Slots : OptInsertRec(s)
    \/ \E s \in Slots : OptInsertResult(s)
    \/ \E j \in Jobs, s \in Slots : Send(j, s)
    \/ \E j \in Jobs, s \in Slots : Finish(j, s)
    \/ \E c \in Conns : Connect(c, "alerts")
    \/ \E c \in Conns : Greeted(c)
    \/ \E c \in Conns : Break(c)

SpecRegistry == Init /\ [][NextRegistry]_vars

\* Subscribers in the specifications with store outages.
NFaultConns == 1

\* The realtime job over every grinding reading, a store that goes down and
\* comes back, and a subscriber of the alerts endpoint.
NextRealtime ==
    \/ Tick(Realtime)
    \/ \E s \in Slots : RtGetLatest(s)
    \/ \E s \in Slots : RtInsert(s)
    \/ \E s \in Slots : SummaryGet(Realtime, s)
    \/ \E s \in Slots : Send(Realtime, s)
    \/ \E s \in Slots : Finish(Realtime, s)
    \/ \E c \in 1..NFaultConns : Connect(c, "alerts")
    \/ \E c \in Conns : Greeted(c)
    \/ \E c \in Conns : Break(c)
    \/ StoreDown
    \/ StoreUp
    \/ \E row \in GrindingRows : IngestGrinding(row)

SpecRealtime == Init /\ [][NextRealtime]_vars

\* The reading whose specific energy consumption is critical, and the one
\* the calculators fail on.
CriticalReading == [power |-> 2600, feed |-> 80]
NullPowerReading == [power |-> Null, feed |-> 80]

\* A tick of job j at a moment when no other job is running.
SerialTick(j) ==
    /\ \A k \in Jobs \ {j} : instances(k) = 0
    /\ Tick(j)

\* The four jobs, one job running at a time, with store outages, grinding
\* readings arriving and a subscriber whose peer may go away.
NextFaults ==
    \/ \E j \in Jobs : SerialTick(j)
    \/ \E j \in Jobs : RunStep(j)
    \/ \E c \in 1..NFaultConns : Connect(c, "alerts")
    \/ \E c \in Conns : Greeted(c)
    \/ \E c \in Conns : Break(c)
    \/ StoreDown
    \/ StoreUp
    \/ \E row \in {CriticalReading, NullPowerReading} : IngestGrinding(row)

SpecFaults == Init /\ [][NextFaults]_vars

\* As NextFaults, with an outage that lasts and one critical reading.
NextLive ==
    \/ \E j \in Jobs : SerialTick(j)
    \/ \E j \in Jobs : RunStep(j)
    \/ \E c \in 1..NFaultConns : Connect(c, "alerts")
    \/ \E c \in Conns : Greeted(c)
    \/ \E c \in Conns : Break(c)
    \/ StoreDown
    \/ IngestGrinding(CriticalReading)

\* The event loop resumes every task whose await has completed, and the
\* executor's done callback runs when a body has ended.
SpecLive == Init /\ [][NextLive]_vars /\ \A j \in Jobs : WF_vars(RunStep(j))

\* The four jobs, one job running at a time, a critical reading, a
\* subscriber, and the process shutting down at any moment.
NextShutdown ==
    \/ \E j \in Jobs : SerialTick(j)
    \/ \E j \in Jobs : RunStep(j)
    \/ \E c \in 1..NFaultConns : Connect(c, "alerts")
    \/ \E c \in Conns : Greeted(c)
    \/ IngestGrinding(CriticalReading)
    \/ Shutdown
    \/ CloseDone
    \/ \E j \in Jobs, s \in Slots : Cancel(j, s)

SpecShutdown == Init /\ [][NextShutdown]_vars

\* Rows a calculator fails on: a null oxide, a null feed rate (the summary
\* survives it, the grinding calculator does not), a null coal rate.
NullCaoRow == [cao |-> Null, sio2 |-> 200, al2o3 |-> 50, fe2o3 |-> 30]
NullFeedReading == [power |-> 2000, feed |-> Null]
NullCoalRow == [coal |-> Null, alt |-> 30, alt_type |-> "waste_tire"]

\* The store as the process finds it: every stream empty or holding a row,
\* normal or one a calculator fails on.
InitReport ==
    /\ run = [j \in Jobs |-> [s \in Slots |-> IdleRun]]
    /\ escaped = [j \in Jobs |-> FALSE]
    /\ \E m \in {None} \cup {Some(x) : x \in RawRows \cup {NullCaoRow}},
          g \in {None} \cup {Some(x) : x \in GrindingRows \cup {NullFeedReading}},
          k \in {None} \cup {Some(x) : x \in KilnRows \cup {NullCoalRow}},
          q \in {None} \cup {Some(x) : x \in QualityRows} :
         store = [up |-> TRUE, raw_material |-> m, grinding |-> g, kiln |-> k,
                  quality |-> q, ai_recommendations |-> << >>,
                  optimization_results |-> << >>, utilities |-> 0]
    /\ active_connections = << >>
    /\ connection_info = {}
    /\ conn = [c \in Conns |-> [pc |-> "new", endpoint |-> "none", healthy |-> TRUE]]
    /\ app = [scheduler |-> "running", supabase |-> "open"]
    /\ calc = NoCall
    /\ ack = NoAnswer

\* The optimization job over such a store, with a subscriber.
NextReport ==
    \/ Tick(Optimization)
    \/ \E s \in Slots : SummaryGet(Optimization, s)
    \/ \E s \in Slots : OptInsertRec(s)
    \/ \E s \in Slots : OptInsertResult(s)
    \/ \E s \in Slots : Send(Optimization, s)
    \/ \E s \in Slots : Finish(Optimization, s)
    \/ \E c \in 1..NFaultConns : Connect(c, "alerts")
    \/ \E c \in Conns : Greeted(c)

SpecReport == InitReport /\ [][NextReport]_vars

\* The four calculators called on every input.
NextCalculators ==
    \/ CallChemistry
    \/ CallGrinding
    \/ CallFuel
    \/ CallHealth

SpecCalculators == Init /\ [][NextCalculators]_vars

\* The two jobs that persist alerts, one running at a time, the grinding
\* readings above the target band and the acknowledgment of persisted
\* alerts.
NextAck ==
    \/ \E j \in {Realtime, Optimization} : SerialTick(j)
    \/ \E s \in Slots : RtGetLatest(s)
    \/ \E s \in Slots : RtInsert(s)
    \/ \E j \in {Realtime, Optimization}, s \in Slots : SummaryGet(j, s)
    \/ \E s \in Slots : OptInsertRec(s)
    \/ \E s \in Slots : OptInsertResult(s)
    \/ \E j \in {Realtime, Optimization}, s \in Slots : Finish(j, s)
    \/ \E row \in {g \in GrindingRows :
                       analyze_grinding_efficiency(g).status
                           \in {"acceptable", "critical"}} : IngestGrinding(row)
    \/ \E id \in 1..MaxRows : Acknowledge(id)

SpecAck == Init /\ [][NextAck]_vars

\* The acknowledgment route called with the ids of the table and one more,
\* the realtime job persisting alerts, and a store that goes down and comes
\* back.
NextAckRoute ==
    \/ SerialTick(Realtime)
    \/ \E s \in Slots : RtGetLatest(s)
    \/ \E s \in Slots : RtInsert(s)
    \/ \E s \in Slots : SummaryGet(Realtime, s)
    \/ \E s \in Slots : Finish(Realtime, s)
    \/ IngestGrinding(CriticalReading)
    \/ \E id \in 1..(MaxRows + 1) : Acknowledge(id)
    \/ StoreDown
    \/ StoreUp

SpecAckRoute == Init /\ [][NextAckRoute]_vars

\* As SpecBroadcast, with the interval trigger firing again and again, the
\* event loop resuming every task whose await has completed, and the
\* endpoint handlers going on.
SpecConnLive ==
    /\ Init /\ [][NextBroadcast]_vars
    /\ WF_vars(Tick(Realtime))
    /\ WF_vars(RunStep(Realtime))
    /\ \A c \in Conns : WF_vars(LoadInitial(c) \/ Greeted(c))

\* The equipment-health and the sample-data job, the utilities table
\* filling, store outages and a subscriber.
NextHousekeeping ==
    \/ \E j \in {Health, Sample} : Tick(j)
    \/ \E s \in Slots : EqGetRecent(s)
    \/ \E s \in Slots : SampleLog(s)
    \/ \E j \in {Health, Sample}, s \in Slots : Finish(j, s)
    \/ \E c \in 1..NFaultConns : Connect(c, "alerts")
    \/ \E c \in Conns : Greeted(c)
    \/ IngestUtilities
    \/ StoreDown
    \/ StoreUp

SpecHousekeeping == Init /\ [][NextHousekeeping]_vars

\* ------------------------------------------------------------------ claims
\* The runs of the two jobs that broadcast.
Broadcasters == {Realtime, Optimization}

\* C1: for each of the four scheduled jobs, at every moment at most one run
\* of the job is in flight, also when ticks of the job fire while a run of it
\* is still going on.
C1_AtMostOneInFlight == \A j \in Jobs : instances(j) <= 1

\* Every job is in the middle of a run during which a tick of it has fired.
C1_Witness ==
    \A j \in Jobs : \E s \in Slots :
        run[j][s].pc \notin {"idle", "done"} /\ run[j][s].dropped

\* C2: a broadcast over N registered connections with no other registry
\* operation interleaved attempts a send to each of them; the connections
\* whose send failed are exactly the ones unregistered after it, and every
\* other one got the message and is still registered.
C2_BroadcastIsolation ==
    \A j \in Broadcasters, s \in Slots :
        LET r == run[j][s]
            failed == Range(r.disconnected)
        IN  (r.pc = "done" /\ r.broadcasts > 0 /\ r.solo) =>
                /\ r.delivered \cup failed = r.snapshot
                /\ r.delivered \cap failed = {}
                /\ Range(active_connections) = r.snapshot \ failed
                /\ connection_info = r.snapshot \ failed

\* An undisturbed broadcast over all NConn connections has ended, one send
\* failed and the other connections got the message.
C2_Witness ==
    \E s \in Slots :
        LET r == run[Realtime][s] IN
        /\ r.pc = "done" /\ r.solo
        /\ Cardinality(r.snapshot) = NConn
        /\ Len(r.disconnected) = 1
        /\ Cardinality(r.delivered) = NConn - 1
        /\ Len(active_connections) = NConn - 1

\* C3: every connection that stays registered and healthy from the start to
\* the end of a broadcast sweep receives that sweep's message, also when
\* broadcasts of different jobs overlap or a handle is unregistered while the
\* sweep is suspended inside a send.
C3_EveryStayingConnectionReceives ==
    \A j \in Broadcasters, s \in Slots :
        run[j][s].pc = "done" => run[j][s].eligible \subseteq run[j][s].delivered

\* C4: while a broadcast sweep is in progress, from its first send until it
\* has removed its failed handles, no step changes the registered
\* connections.
C4_RegistryExclusive ==
    [][\A j \in Broadcasters, s \in Slots :
          (run[j][s].pc = "send" /\ run'[j][s].pc = "send") =>
              /\ active_connections' = active_connections
              /\ connection_info' = connection_info]_vars

\* C5 as the specification has it: a run of the realtime job persists
\* exactly one alert record when the grinding status is critical, none
\* otherwise.
C5_ExactlyOnePersisted ==
    \A s \in Slots :
        LET r == run[Realtime][s] IN
        r.pc = "done" =>
            Len(r.persisted) = IF r.status = "critical" THEN 1 ELSE 0

\* C5: a run of the realtime job makes exactly one insert of an alert record
\* when the grinding status of the latest reading is critical and none
\* otherwise; the record is persisted unless a store call of the run failed.
C5_OneInsertWhenCritical ==
    \A s \in Slots :
        LET r == run[Realtime][s] IN
        r.pc = "done" =>
            /\ r.inserts = IF r.status = "critical" THEN 1 ELSE 0
            /\ Len(r.persisted) <= r.inserts
            /\ Len(r.persisted) < r.inserts => r.store_failed

\* A run over a critical reading has ended with its one alert persisted.
C5_Witness ==
    \E s \in Slots :
        LET r == run[Realtime][s] IN
        r.pc = "done" /\ r.status = "critical" /\ Len(r.persisted) = 1

\* C6: in a run of the realtime or of the optimization job every insert of
\* the run's alert and recommendation records has returned before the run's
\* broadcast starts, and every record a delivered message of the run refers
\* to has been persisted by the run.
C6_DurableBeforeBroadcast ==
    \A j \in Broadcasters, s \in Slots :
        LET r == run[j][s] IN
        /\ r.broadcasts > 0 => r.inserts = r.produced
        /\ r.delivered # {} =>
               \A i \in DOMAIN r.msg.recs : AlertRow(r.msg.recs[i]) \in Range(r.persisted)

\* C7: every run of a scheduled job that starts eventually returns the job
\* to idle, also when store calls or sends fail.
C7_RunsEnd ==
    [](\A j \in Jobs : instances(j) > 0 => <>(instances(j) = 0))

\* A run has ended after a store call of it failed and a send of it failed.
C7_Witness ==
    \E j \in Broadcasters, s \in Slots :
        /\ run[j][s].pc = "done"
        /\ run[j][s].store_failed
        /\ run[j][s].disconnected # << >>

\* C8: a tick of a job that fires during a run of the job starts no run, and
\* when the run in progress ends the job is idle: no run is started to make
\* up for a tick that fired during a run.
C8_NoMakeUpRun ==
    [][\A j \in Jobs :
          /\ instances(j) > 0 => instances(j)' <= instances(j)
          /\ \A s \in Slots :
                 (run[j][s].pc = "done" /\ run'[j][s].pc # "done") =>
                     instances(j)' = 0]_vars

\* A run during which a tick was dropped has ended and is about to be
\* released.
C8_Witness ==
    \E j \in Jobs, s \in Slots : run[j][s].pc = "done" /\ run[j][s].dropped

\* C9: every run of the realtime job ends after one broadcast of a
\* plant_update message that started when no alert insert of the run was
\* left to make, whatever the store returned or accepted.
C9_EndsWithPlantUpdate ==
    \A s \in Slots :
        LET r == run[Realtime][s] IN
        r.pc = "done" =>
            /\ r.broadcasts = 1
            /\ r.msg.type = "plant_update"
            /\ r.alerts = << >>
            /\ r.inserts = r.produced

\* A run whose alert insert failed has ended with its plant_update delivered.
C9_Witness ==
    \E s \in Slots :
        LET r == run[Realtime][s] IN
        /\ r.pc = "done"
        /\ r.produced = 1 /\ r.persisted = << >>
        /\ r.msg.type = "plant_update" /\ r.delivered # {}

NextAlertLive ==
    \/ Tick(Realtime)
    \/ \E s \in Slots : RtGetLatest(s)
    \/ \E s \in Slots : RtInsert(s)
    \/ \E s \in Slots : SummaryGet(Realtime, s)
    \/ \E s \in Slots : Finish(Realtime, s)
    \/ \E row \in GrindingRows : IngestGrinding(row)

SpecAlertLive ==
    /\ Init /\ [][NextAlertLive]_vars
    /\ WF_vars(Tick(Realtime))
    /\ WF_vars(RunStep(Realtime))

\* The alert records of the grinding area in the recommendations stream.
GrindingAlerts ==
    {i \in DOMAIN store.ai_recommendations :
        store.ai_recommendations[i].process_area = "grinding"}

\* C11: whenever a grinding reading whose status is critical becomes the
\* latest grinding reading, an alert record of the grinding area is
\* eventually persisted.
C11_CriticalLeadsToAlert ==
    (store.grinding = Some(CriticalReading)) ~> (GrindingAlerts # {})

C13_PersistedAreReportRecs ==
    \A s \in Slots :
        LET r == run[Optimization][s] IN
        r.broadcasts > 0 =>
            /\ Len(r.persisted) = Len(r.msg.recs)
            /\ \A i \in DOMAIN r.persisted :
                   /\ r.persisted[i] = AlertRow(r.msg.recs[i])
                   /\ ~r.persisted[i].action_taken


\* C14: once shutdown has begun no run starts, a run in flight ends only by
\* its body having run to its end, and the store handle is released only
\* when no run is in flight.
C14_OrderlyShutdown ==
    /\ [][app.scheduler = "stopped" =>
            \A j \in Jobs, s \in Slots :
                /\ run[j][s].pc = "idle" => run'[j][s].pc = "idle"
                /\ run[j][s].pc # "idle" /\ run'[j][s].pc = "idle" =>
                       run[j][s].pc = "done"]_vars
    /\ [](app.supabase = "closed" => \A j \in Jobs : instances(j) = 0)


\* C15: every message sent to a subscriber, by the handler of its endpoint
\* or by the broadcast of a job, has one of the four types initial,
\* plant_update, optimization and welcome, and carries a data payload and a
\* created_at timestamp.
C15_EveryMessageIsEnvelope ==
    LET IsEnvelope(type, keys) ==
            /\ type \in {"initial", "plant_update", "optimization", "welcome"}
            /\ {"type", "data", "created_at"} \subseteq keys
    IN  /\ \A c \in Conns :
               conn[c].pc = "open" =>
                   IsEnvelope(Greeting(conn[c].endpoint).type,
                              Greeting(conn[c].endpoint).keys)
        /\ \A j \in Jobs, s \in Slots :
               run[j][s].broadcasts > 0 /\ run[j][s].snapshot # {} =>
                   IsEnvelope(run[j][s].msg.type, BroadcastKeys(run[j][s].msg))


\* C16: when exactly one of the chemistry, grinding and fuel calculators
\* returns its error result for the snapshot, the report the optimization
\* job broadcasts is no whole-report error: it carries the results of the
\* three calculators, a plant_efficiency_score and the energy_savings.
C16_ToleratesOneCalculatorError ==
    \A s \in Slots :
        LET r == run[Optimization][s]
            pd == _get_plant_data_summary(store.raw_material, store.grinding,
                                          store.kiln, store.quality)
            chemistry == analyze_chemistry(pd.raw_material)
            energy == analyze_grinding_efficiency(pd.grinding)
            fuel == optimize_fuel_mix(pd.kiln, DefaultTargetTsr)
            errors == (IF chemistry.error THEN {"chemistry"} ELSE {})
                      \cup (IF energy.error THEN {"energy"} ELSE {})
                      \cup (IF fuel.error THEN {"fuel"} ELSE {})
        IN  r.msg.type = "optimization" /\ Cardinality(errors) = 1 =>
                LET kpi == Val(r.msg.report) IN
                /\ ~kpi.error
                /\ kpi.chemistry = Some(chemistry)
                /\ kpi.energy = Some(energy)
                /\ kpi.fuel_optimization = Some(fuel)
                /\ kpi.plant_efficiency_score # Null
                /\ kpi.energy_savings # NoSavings


\* C17 as the specification has it: the result a calculator returns when
\* its body fails is tagged error and every numeric field of it is null.
C17_ErrorResultAllNull ==
    LET in == Val(calc.input)
        out == Val(calc.result)
    IN  /\ calc.calculator = "chemistry" /\ out.error =>
               out.lsf_pct_value = Null /\ \A i \in DOMAIN out.target_range :
                                               out.target_range[i] = Null
        /\ calc.calculator = "grinding" /\ out.error =>
               /\ out.value = Null /\ out.potential_savings_kwh = Null
               /\ out.target = Null
        /\ calc.calculator = "fuel" /\ out.error =>
               out.current_tsr = Null /\ out.target_tsr = Null
        /\ calc.calculator = "health" /\ out.error =>
               out.health_score = Null /\ out.failure_risk = Null

\* C17: a calculator called with a null field its body computes with returns
\* its error result: tagged error (the fuel result in its feasibility), the
\* figures it computes null, its targets kept; called with every field
\* absent or a number it returns the normal result of the input with the
\* defaults in the place of the absent fields.
C17_ErrorResultOrDefault ==
    LET in == Val(calc.input)
        out == Val(calc.result)
    IN  /\ calc.calculator = "chemistry" =>
               IF Null \in {in.cao, in.sio2, in.al2o3, in.fe2o3}
               THEN /\ out.error /\ out.lsf = "error" /\ out.lsf_pct = "error"
                    /\ out.lsf_pct_value = Null
                    /\ out.target_range = <<92, 98>>
               ELSE /\ ~out.error /\ out.lsf_pct # "error"
                    /\ out.lsf_pct_value >= 0
                    /\ out = analyze_chemistry(
                                 [cao |-> Get(in.cao, DefaultCao),
                                  sio2 |-> Get(in.sio2, DefaultSio2),
                                  al2o3 |-> Get(in.al2o3, DefaultAl2o3),
                                  fe2o3 |-> Get(in.fe2o3, DefaultFe2o3)])
        /\ calc.calculator = "grinding" =>
               IF in.feed = Null \/ (in.power = Null /\ in.feed # 0)
               THEN /\ out.error /\ out.status = "error"
                    /\ out.value = Null /\ out.potential_savings_kwh = Null
                    /\ out.target = TargetSec
               ELSE /\ ~out.error
                    /\ out.status \in {"optimal", "acceptable", "critical"}
                    /\ out.value >= 0 /\ out.potential_savings_kwh >= 0
                    /\ in.power # Null =>
                           out = analyze_grinding_efficiency(
                                     [power |-> Get(in.power, DefaultPower),
                                      feed |-> Get(in.feed, DefaultFeed)])
        /\ calc.calculator = "fuel" =>
               IF Null \in {in.coal, in.alt}
               THEN /\ out.error /\ out.feasibility = "error"
                    /\ out.current_tsr = Null
                    /\ out.target_tsr >= DefaultTargetTsr
               ELSE /\ ~out.error
                    /\ out.feasibility \in {"feasible", "review_required"}
                    /\ out.current_tsr >= 0
                    /\ out.current_tsr =
                           optimize_fuel_mix(
                               [coal |-> Get(in.coal, 0), alt |-> Get(in.alt, 0),
                                alt_type |-> AltFuelType(in)],
                               out.target_tsr).current_tsr
        /\ calc.calculator = "health" =>
               IF \/ Null \in {in.efficiency, in.baseline_power, in.maintenance_days}
                  \/ in.current_power = Null /\ in.baseline_power > 0
               THEN /\ out.error /\ out.status = "error"
                    /\ out.health_score = Null /\ out.failure_risk = Null
               ELSE /\ ~out.error
                    /\ out.status \in {"good", "warning", "critical"}
                    /\ out.health_score >= 0 /\ out.failure_risk >= 0

\* The grinding calculator has returned its error result for a reading whose
\* power is null and whose feed rate is absent.
C17_Witness ==
    /\ calc.calculator = "grinding"
    /\ Val(calc.input) = [power |-> Null, feed |-> Absent]
    /\ Val(calc.result).error


\* C18: the alert table changes only by a row being appended with
\* action_taken false, or by the action_taken of one row becoming true in a
\* step of the acknowledgment route (no step of a job); no step sets an
\* action_taken back to false.
C18_ActionTakenOnlyRises ==
    [][LET old == store.ai_recommendations
           new == store'.ai_recommendations
       IN  new # old =>
               \/ \E row \in Range(new) :
                      /\ ~row.action_taken
                      /\ new = Newest(Append(old, row))
               \/ /\ run' = run
                  /\ \E i \in DOMAIN old :
                         /\ ~old[i].action_taken
                         /\ new = [old EXCEPT ![i].action_taken = TRUE]]_vars

\* An acknowledged alert and an alert persisted after it stand in the table.
C18_Witness ==
    /\ Len(store.ai_recommendations) = 2
    /\ store.ai_recommendations[1].action_taken
    /\ ~store.ai_recommendations[2].action_taken


\* C19: every alert row the realtime job or the optimization job has
\* persisted has a priority_level from 1 to 5.
C19_PriorityInRange ==
    /\ \A i \in DOMAIN store.ai_recommendations :
           store.ai_recommendations[i].priority_level \in 1..5
    /\ \A j \in {Realtime, Optimization}, s \in Slots :
           \A i \in DOMAIN run[j][s].persisted :
               run[j][s].persisted[i].priority_level \in 1..5

\* The table holds a row of the second priority (grinding above target, not
\* critical) and one of the third (alternative fuel below target).
C19_Witness ==
    \E i, k \in DOMAIN store.ai_recommendations :
        /\ store.ai_recommendations[i].priority_level = 2
        /\ store.ai_recommendations[k].priority_level = 3


\* C20: when the send of send_personal_message to a handle fails, the call
\* returns to the handler (which goes on to its sleep loop), the handle is
\* no longer registered, and every other handle is registered exactly as
\* before.
C20_FailedSendUnregistersOnlyThatHandle ==
    [][\A c \in Conns :
          conn[c].pc = "greeting" /\ conn'[c].pc # "greeting" /\ ~conn[c].healthy =>
              /\ conn'[c].pc = "open"
              /\ c \notin Range(active_connections')
              /\ c \notin connection_info'
              /\ connection_info' = connection_info \ {c}
              /\ \A d \in Conns \ {c} :
                     d \in Range(active_connections') <=>
                         d \in Range(active_connections)]_vars

\* The send to one handle has failed while no broadcast was under way: the
\* handle is open and unregistered, another handle is registered.
C20_Witness ==
    /\ \A j \in Jobs, s \in Slots : run[j][s].pc = "idle"
    /\ \E c, d \in Conns :
           /\ c # d
           /\ conn[c].pc = "open" /\ ~conn[c].healthy
           /\ c \notin Range(active_connections)
           /\ d \in Range(active_connections) /\ d \in connection_info


\* C21: unregistering a handle that is not registered leaves the registry as
\* it is, unregistering a handle twice is unregistering it once, and the end
\* of a broadcast sweep, which unregisters every handle its sends failed on
\* (some of them unregistered meanwhile by another sweep or by a handler),
\* removes exactly those handles and keeps the others in their order.
C21_UnregisterIdempotent ==
    /\ [](\A c \in Conns :
             /\ c \notin Range(active_connections) =>
                    disconnect(Registry, c) = Registry
             /\ disconnect(disconnect(Registry, c), c) = disconnect(Registry, c))
    /\ [][\A j \in Jobs, s \in Slots :
             run[j][s].pc = "send" /\ run'[j][s].pc = "done" =>
                 LET failed == Range(run'[j][s].disconnected)
                 IN  /\ active_connections' =
                            SelectSeq(active_connections, LAMBDA x : x \notin failed)
                     /\ connection_info' = connection_info \ failed]_vars

\* Two sweeps, one of each broadcasting job, have both failed on the same
\* connection and have both ended: the handle was unregistered twice.
C21_Witness ==
    \E c \in Conns, s, t \in Slots :
        /\ run[Realtime][s].pc = "done" /\ run[Optimization][t].pc = "done"
        /\ c \in Range(run[Realtime][s].disconnected)
        /\ c \in Range(run[Optimization][t].disconnected)
        /\ c \notin Range(active_connections)
        /\ active_connections # << >>


\* C22: a registered handle stays registered while its peer is there; once
\* the peer of a handle has gone away the handle is eventually no longer
\* registered; and no sweep starts a send to a handle that is not
\* registered.
C22_DisconnectedEventuallyRemoved ==
    /\ \A c \in Conns :
           (~conn[c].healthy) ~> (c \notin Range(active_connections))
    /\ [][\A c \in Conns :
             /\ (c \in Range(active_connections) /\
                    c \notin Range(active_connections')) => ~conn[c].healthy
             /\ c \notin Range(active_connections) =>
                    \A j \in Jobs, s \in Slots :
                        (run'[j][s].pc = "send" /\ run'[j][s].cur = c) =>
                            (run[j][s].pc = "send" /\ run[j][s].cur = c /\
                             run[j][s].idx = run'[j][s].idx)]_vars

\* A sweep has failed on a handle whose peer had gone away and has
\* unregistered it; the other handle is still registered.
C22_Witness ==
    \E c \in Conns, s \in Slots :
        /\ run[Realtime][s].pc = "done"
        /\ c \in Range(run[Realtime][s].disconnected)
        /\ conn[c].pc = "open" /\ ~conn[c].healthy
        /\ c \notin Range(active_connections)
        /\ active_connections # << >>


\* C23: a run of the equipment-health or of the sample-data job has made no
\* insert and no broadcast and has delivered nothing; the equipment-health
\* run has read at most 20 utilities rows and the sample-data run has made
\* no store call; and no step of these jobs changes the store or the
\* registry.
C23_HousekeepingJobsOnlyRead ==
    /\ [](\A j \in {Health, Sample}, s \in Slots :
             LET r == run[j][s] IN
             /\ r.inserts = 0 /\ r.result_inserts = 0 /\ r.persisted = << >>
             /\ r.broadcasts = 0 /\ r.delivered = {} /\ r.pc # "send"
             /\ r.equipment_data <= EqLimit
             /\ j = Sample => r.equipment_data = 0 /\ ~r.store_failed)
    /\ [][(\E j \in {Health, Sample}, s \in Slots :
                run'[j][s].pc # run[j][s].pc) =>
             /\ store' = store
             /\ active_connections' = active_connections
             /\ connection_info' = connection_info]_vars

\* A run of the equipment-health job has read its full batch from a table
\* that holds more rows, with a subscriber registered.
C23_Witness ==
    \E s \in Slots :
        /\ run[Health][s].pc = "done"
        /\ run[Health][s].equipment_data = EqLimit
        /\ store.utilities > EqLimit
        /\ active_connections # << >>


\* C24 as the specification has it: for every kiln input the feasibility of
\* the fuel optimizer's result is feasible when target_tsr <= 40 and
\* review_required when target_tsr > 40.
C24_FeasibilityByTargetAlone ==
    calc.calculator = "fuel" =>
        Val(calc.result).feasibility =
            IF Val(calc.result).target_tsr <= 40 THEN "feasible"
            ELSE "review_required"

\* C24: for every kiln input whose coal and alternative-fuel rates are
\* absent or numbers, whatever they and the fuel type are, feasibility is
\* feasible when target_tsr <= 40 and review_required when target_tsr > 40;
\* with a null rate the result is the error result, whose feasibility is
\* error.
C24_FeasibilityByTargetUnlessError ==
    calc.calculator = "fuel" =>
        LET in == Val(calc.input)
            out == Val(calc.result)
        IN  IF Null \in {in.coal, in.alt}
            THEN out.error /\ out.feasibility = "error"
            ELSE /\ ~out.error
                 /\ out.feasibility = IF out.target_tsr <= 40 THEN "feasible"
                                       ELSE "review_required"

\* The optimizer was called with numeric rates and a target of 41 and its
\* result says review_required.
C24_Witness ==
    /\ calc.calculator = "fuel"
    /\ Val(calc.input).coal = 70 /\ Val(calc.input).alt = 30
    /\ Val(calc.result).target_tsr = 41
    /\ Val(calc.result).feasibility = "review_required"


\* C25: the plant_efficiency_score of every report the optimization job
\* broadcasts lies within 55..100 and is 70 plus the band adjustments (SEC
\* <= 25: +10, else <= 30: +5; quality score >= 95: +8, else >= 90: +5; TSR
\* >= 30: +5, else >= 20: +2; LSF status optimal: +2, critical: -4),
\* clamped to 55..100.
C25_ScoreIsBandSum ==
    \A s \in Slots :
        LET r == run[Optimization][s]
            pd == _get_plant_data_summary(store.raw_material, store.grinding,
                                          store.kiln, store.quality)
            kpi == Val(r.msg.report)
            sec == ReportSec(pd, Val(kpi.energy))
            quality == Get(pd.overview.quality, 90)
            tsr == Val(kpi.fuel_optimization).current_tsr
            lsf == Val(kpi.chemistry).lsf_pct
            sum == 70
                + (IF sec[1] <= 25 * sec[2] THEN 10
                   ELSE IF sec[1] <= 30 * sec[2] THEN 5 ELSE 0)
                + (IF quality >= 95 THEN 8 ELSE IF quality >= 90 THEN 5 ELSE 0)
                + (IF tsr >= 3000 THEN 5 ELSE IF tsr >= 2000 THEN 2 ELSE 0)
                + (IF lsf = "optimal" THEN 2 ELSE IF lsf = "critical" THEN -4 ELSE 0)
        IN  r.msg.type = "optimization" =>
                /\ kpi.plant_efficiency_score \in 55..100
                /\ kpi.plant_efficiency_score = Max(55, Min(100, sum))


\* C26: the recommendation list of every report the optimization job
\* broadcasts is ranked by priority: no recommendation comes before one
\* with a numerically lower priority_level.
C26_RecommendationsRanked ==
    \A s \in Slots :
        LET r == run[Optimization][s]
            recs == Val(r.msg.report).recommendations
        IN  r.msg.type = "optimization" =>
                \A a, b \in DOMAIN recs :
                    a < b => recs[a].priority_level <= recs[b].priority_level


\* C27: whatever connects, failed sends and overlapping broadcasts have
\* happened, active_connections holds no handle twice and the set of its
\* handles is the set of keys of connection_info.
C27_ListAndInfoAgree ==
    /\ \A a, b \in DOMAIN active_connections :
           active_connections[a] = active_connections[b] => a = b
    /\ Range(active_connections) = connection_info

\* Two broadcasts are in their sweeps at once, a failed send has already
\* unregistered one handle and another handle is still registered.
C27_Witness ==
    /\ \E c \in Conns : conn[c].pc # "new" /\ c \notin Range(active_connections)
    /\ active_connections # << >>
    /\ Cardinality({js \in Jobs \X Slots : run[js[1]][js[2]].pc = "send"}) >= 2


\* C28: the first message a subscriber receives is its own greeting: a
\* broadcast is delivered only to connections whose handler has already
\* handed the greeting (initial or welcome) to the socket, never to one
\* whose handler is still loading the initial data.
C28_GreetingComesFirst ==
    \A j \in Jobs, s \in Slots :
        \A c \in run[j][s].delivered : conn[c].pc \in {"greeting", "open"}


\* C29: the acknowledgment route answers 200 when a row matched the id, 404
\* when the update ran and no row matched, and 500 only when the update
\* itself failed.
C29_AnswerTellsOutcome ==
    ack # NoAnswer =>
        /\ ack.data = "rows" => ack.status = 200
        /\ ack.data = "empty" => ack.status = 404
        /\ ack.status = 500 => ack.data = "None"


\* C30 as the specification has it: in every chemistry result that is not
\* the error result, the status of the ratio form (key lsf) is critical
\* exactly when the status of the percent form (key lsf_pct) is critical.
C30_CriticalTogether ==
    LET out == Val(calc.result)
    IN  calc.calculator = "chemistry" /\ ~out.error =>
            (out.lsf = "critical" <=> out.lsf_pct = "critical")

\* C30: in every chemistry result that is not the error result, a critical
\* ratio form goes with a critical percent form and an LSF below 88 % or
\* above 102 %; the percent form is critical with a ratio form that is not
\* only for an LSF from 88 % to 90 % or from 100 % to 102 %, where the ratio
\* form is acceptable.
C30_CriticalBandsNested ==
    LET out == Val(calc.result)
    IN  calc.calculator = "chemistry" /\ ~out.error =>
            /\ out.lsf = "critical" =>
                   /\ out.lsf_pct = "critical"
                   /\ out.lsf_pct_value \notin 8801..10199
            /\ out.lsf_pct = "critical" /\ out.lsf # "critical" =>
                   /\ out.lsf = "acceptable"
                   /\ out.lsf_pct_value \in (8800..9000) \cup (10000..10200)

\* The chemistry calculator has returned a result whose percent form is
\* critical and whose ratio form is acceptable.
C30_Witness ==
    /\ calc.calculator = "chemistry"
    /\ ~Val(calc.result).error
    /\ Val(calc.result).lsf_pct = "critical"
    /\ Val(calc.result).lsf = "acceptable"

====
